---- MODULE Spec2Model ----
(***************************************************************************)
(* Task service: the use-case layer (TaskUseCaseImpl) over the postgres    *)
(* task repository and the redis cache repository.                         *)
(*                                                                         *)
(* Every request runs as one process; each step of a process is one call   *)
(* to a collaborator (a store query or a cache command), so that requests  *)
(* interleave exactly at the I/O points of the Go code.                    *)
(***************************************************************************)
EXTENDS Integers, Sequences, FiniteSets, TLC

\* ------------------------------------------------------------------ bounds

\* Identifiers 1..MaxIds stand for the UUIDs in play; 0 is uuid.Nil.
MaxIds == 2
\* The wall clock takes the values 1..MaxClock; 0 is the zero time.Time.
MaxClock == 2
\* A slice grown by append (or by the JSON decoder) has between len and
\* len + CapSlack cells of capacity.
CapSlack == 1
\* Concurrent requests in SpecConc.
NumProcs == 2

\* ------------------------------------------------------- program constants

DefaultLimit == 20
MaxLimit == 100
\* The time-to-live List gives the cached collection, in minutes.
CacheTTL == 5

NilUUID == 0
ZeroTime == 0

\* title VARCHAR(255)
MaxTitleLen == 255

\* net/http status codes.
StatusOK == 200
StatusCreated == 201
StatusNoContent == 204
StatusBadRequest == 400
StatusNotFound == 404
StatusUnprocessableEntity == 422
StatusInternalServerError == 500

IDs == 1..MaxIds
Procs == 1..NumProcs
Times == 1..MaxClock

validStatuses == {"todo", "in_progress", "done"}

\* The zero value entity.Task{}.
ZeroTask ==
  [id |-> NilUUID, title |-> "", description |-> "", status |-> "",
   created_at |-> ZeroTime, updated_at |-> ZeroTime]

\* Error values. "nil" is the nil error; the others name the Go error value.
ErrNil == "nil"
ErrTitle == "title cannot be empty"
ErrStatus == "status must be one of: todo, in_progress, done"
ErrTaskNotFound == "postgres.ErrTaskNotFound"
\* The use-case package's own error value of the same text.
UsecaseErrTaskNotFound == "usecase.ErrTaskNotFound"
ErrInvalidUUID == "postgres.ErrInvalidUUID"
ErrStore == "StoreError"
ErrCache == "CacheError"

ValidationErrors == {ErrTitle, ErrStatus}

\* ------------------------------------------------------------ entity.Task

\* Mutant: the status is not checked.
ValidateTitleOnly(t) == IF t.title = "" THEN ErrTitle ELSE ErrNil

Validate(t) ==
  IF t.title = "" THEN ErrTitle
  ELSE IF t.status \notin validStatuses THEN ErrStatus
  ELSE ErrNil

\* ------------------------------------------------------------- Go slices

\* A []entity.Task: nil or not, its elements, and the capacity of its
\* backing array (cells past len hold the zero Task).
NilSlice == [isnil |-> TRUE, elems |-> <<>>, cap |-> 0]

MkSlice(elems, cap) == [isnil |-> FALSE, elems |-> elems, cap |-> cap]

\* Capacities a slice of n appended elements can have.
Caps(n) == IF n = 0 THEN {0} ELSE n..(n + CapSlack)

\* The slice expression s[lo:hi]: bounds are checked against cap(s), not
\* len(s); out of range is a run-time panic.
SliceExpr(s, lo, hi) ==
  IF lo < 0 \/ hi < lo \/ hi > s.cap
    THEN [kind |-> "panic", items |-> <<>>, err |-> ErrNil, task |-> ZeroTask]
    ELSE [kind |-> "ok",
          items |-> [i \in 1..(hi - lo) |->
                       IF lo + i <= Len(s.elems) THEN s.elems[lo + i] ELSE ZeroTask],
          err |-> ErrNil, task |-> ZeroTask]

\* The results a use-case call can end with.
OkTask(t) == [kind |-> "ok", items |-> <<>>, err |-> ErrNil, task |-> t]
Failed(e) == [kind |-> "err", items |-> <<>>, err |-> e, task |-> ZeroTask]
NoResult == [kind |-> "none", items |-> <<>>, err |-> ErrNil, task |-> ZeroTask]
\* The goroutine of the request panicked.
Panicked == [kind |-> "panic", items |-> <<>>, err |-> ErrNil, task |-> ZeroTask]

\* ------------------------------------------------------ postgres repository

\* The tasks table: a function from the primary keys present to their rows.
EmptyTable == [i \in {} |-> ZeroTask]

\* uuid.Parse of the id string of Get and Delete.
ParseUUID(idstr) ==
  IF idstr.wellformed THEN [err |-> ErrNil, id |-> idstr.uuid]
  ELSE [err |-> ErrInvalidUUID, id |-> NilUUID]

\* A value written to the column title VARCHAR(255): one of more than 255
\* characters is refused, unless all the characters in excess are spaces,
\* which are cut off.
TitleColumn(title) ==
  IF Len(title) <= MaxTitleLen THEN [err |-> ErrNil, title |-> title]
  ELSE IF \A i \in (MaxTitleLen + 1)..Len(title) : SubSeq(title, i, i) = " "
    THEN [err |-> ErrNil, title |-> SubSeq(title, 1, MaxTitleLen)]
  ELSE [err |-> ErrStore, title |-> title]

\* Mutant: the insert keeps the created_at the caller set.
RepoCreateKeepsCreatedAt(tbl, task, now, fault) ==
  IF fault \/ task.id \in DOMAIN tbl \/ TitleColumn(task.title).err # ErrNil
    THEN [table |-> tbl, task |-> ZeroTask, err |-> ErrStore]
    ELSE LET row == [task EXCEPT !.title = TitleColumn(task.title).title,
                                 !.updated_at = now]
         IN  [table |-> (task.id :> row) @@ tbl, task |-> row, err |-> ErrNil]

\* Mutant: the insert returns the task it was given, not the row.
RepoCreateReturnsArgument(tbl, task, now, fault) ==
  IF fault \/ task.id \in DOMAIN tbl \/ TitleColumn(task.title).err # ErrNil
    THEN [table |-> tbl, task |-> ZeroTask, err |-> ErrStore]
    ELSE LET row == [task EXCEPT !.title = TitleColumn(task.title).title,
                                 !.created_at = now, !.updated_at = now]
         IN  [table |-> (task.id :> row) @@ tbl, task |-> task, err |-> ErrNil]

\* Mutant: the insert overwrites a row that has the id already.
RepoCreateUpserts(tbl, task, now, fault) ==
  IF fault \/ TitleColumn(task.title).err # ErrNil
    THEN [table |-> tbl, task |-> ZeroTask, err |-> ErrStore]
    ELSE LET row == [task EXCEPT !.title = TitleColumn(task.title).title,
                                 !.created_at = now, !.updated_at = now]
         IN  [table |-> (task.id :> row) @@ tbl, task |-> row, err |-> ErrNil]

\* Mutant: the title column takes a value of any length.
RepoCreateUnboundedTitle(tbl, task, now, fault) ==
  IF fault \/ task.id \in DOMAIN tbl
    THEN [table |-> tbl, task |-> ZeroTask, err |-> ErrStore]
    ELSE LET row == [task EXCEPT !.created_at = now, !.updated_at = now]
         IN  [table |-> (task.id :> row) @@ tbl, task |-> row, err |-> ErrNil]

\* INSERT ... RETURNING: both timestamps are the repository's own now; the
\* statement fails on a duplicate primary key and on a title the column
\* refuses.
RepoCreate(tbl, task, now, fault) ==
  IF fault \/ task.id \in DOMAIN tbl \/ TitleColumn(task.title).err # ErrNil
    THEN [table |-> tbl, task |-> ZeroTask, err |-> ErrStore]
    ELSE LET row == [task EXCEPT !.title = TitleColumn(task.title).title,
                                 !.created_at = now, !.updated_at = now]
         IN  [table |-> (task.id :> row) @@ tbl, task |-> row, err |-> ErrNil]

RepoGet(tbl, idstr, fault) ==
  LET parsed == ParseUUID(idstr)
  IN  IF parsed.err # ErrNil THEN [task |-> ZeroTask, err |-> ErrInvalidUUID]
      ELSE IF fault THEN [task |-> ZeroTask, err |-> ErrStore]
      ELSE IF parsed.id \notin DOMAIN tbl THEN [task |-> ZeroTask, err |-> ErrTaskNotFound]
      ELSE [task |-> tbl[parsed.id], err |-> ErrNil]

\* The orders SELECT ... FROM tasks (no ORDER BY) can return the rows in.
Orderings(tbl) ==
  LET n == Cardinality(DOMAIN tbl)
      perms == {f \in [1..n -> DOMAIN tbl] : \A i, j \in 1..n : i # j => f[i] # f[j]}
  IN  {[i \in 1..n |-> tbl[f[i]]] : f \in perms}

\* List: var tasks []entity.Task, then one append per row.
RepoListOutcomes(tbl, fault) ==
  IF fault THEN {[tasks |-> NilSlice, err |-> ErrStore]}
  ELSE IF DOMAIN tbl = {} THEN {[tasks |-> NilSlice, err |-> ErrNil]}
  ELSE {[tasks |-> MkSlice(rows, c), err |-> ErrNil] :
          rows \in Orderings(tbl), c \in Caps(Cardinality(DOMAIN tbl))}

\* Mutant: the statement stamps created_at where it should stamp updated_at.
RepoUpdateStampsCreatedAt(tbl, task, now, fault) ==
  IF fault THEN [table |-> tbl, task |-> ZeroTask, err |-> ErrStore]
  ELSE IF task.id \notin DOMAIN tbl
    THEN [table |-> tbl, task |-> ZeroTask, err |-> ErrTaskNotFound]
  ELSE IF TitleColumn(task.title).err # ErrNil
    THEN [table |-> tbl, task |-> ZeroTask, err |-> ErrStore]
  ELSE LET row == [tbl[task.id] EXCEPT !.title = TitleColumn(task.title).title,
                                       !.description = task.description,
                                       !.status = task.status,
                                       !.created_at = now]
       IN  [table |-> [tbl EXCEPT ![task.id] = row], task |-> row, err |-> ErrNil]

\* Mutant: the statement also sets created_at from the task it is given.
RepoUpdateSetsCreatedAt(tbl, task, now, fault) ==
  IF fault THEN [table |-> tbl, task |-> ZeroTask, err |-> ErrStore]
  ELSE IF task.id \notin DOMAIN tbl
    THEN [table |-> tbl, task |-> ZeroTask, err |-> ErrTaskNotFound]
  ELSE IF TitleColumn(task.title).err # ErrNil
    THEN [table |-> tbl, task |-> ZeroTask, err |-> ErrStore]
  ELSE LET row == [task EXCEPT !.title = TitleColumn(task.title).title,
                               !.updated_at = now]
       IN  [table |-> [tbl EXCEPT ![task.id] = row], task |-> row, err |-> ErrNil]

\* UPDATE ... WHERE id = $1 RETURNING: id and created_at come from the row.
RepoUpdate(tbl, task, now, fault) ==
  IF fault THEN [table |-> tbl, task |-> ZeroTask, err |-> ErrStore]
  ELSE IF task.id \notin DOMAIN tbl
    THEN [table |-> tbl, task |-> ZeroTask, err |-> ErrTaskNotFound]
  ELSE IF TitleColumn(task.title).err # ErrNil
    THEN [table |-> tbl, task |-> ZeroTask, err |-> ErrStore]
  ELSE LET row == [tbl[task.id] EXCEPT !.title = TitleColumn(task.title).title,
                                       !.description = task.description,
                                       !.status = task.status,
                                       !.updated_at = now]
       IN  [table |-> [tbl EXCEPT ![task.id] = row], task |-> row, err |-> ErrNil]

\* Mutant: zero rows affected is not reported.
RepoDeleteIgnoresRowCount(tbl, idstr, fault) ==
  LET parsed == ParseUUID(idstr)
  IN  IF parsed.err # ErrNil THEN [table |-> tbl, err |-> ErrInvalidUUID]
      ELSE IF fault THEN [table |-> tbl, err |-> ErrStore]
      ELSE [table |-> [i \in DOMAIN tbl \ {parsed.id} |-> tbl[i]], err |-> ErrNil]

RepoDelete(tbl, idstr, fault) ==
  LET parsed == ParseUUID(idstr)
  IN  IF parsed.err # ErrNil THEN [table |-> tbl, err |-> ErrInvalidUUID]
      ELSE IF fault THEN [table |-> tbl, err |-> ErrStore]
      ELSE IF parsed.id \notin DOMAIN tbl THEN [table |-> tbl, err |-> ErrTaskNotFound]
      ELSE [table |-> [i \in DOMAIN tbl \ {parsed.id} |-> tbl[i]], err |-> ErrNil]

\* --------------------------------------------------------- redis repository

\* The value under the key "tasks": absent, or a JSON document that is
\* either null or an array of tasks, with the time-to-live it was set with.
NoEntry == [present |-> FALSE, null |-> FALSE, arr |-> <<>>, ttl |-> 0]

\* json.Marshal of a []entity.Task: a nil slice encodes as null.
Marshal(s) == [present |-> TRUE, null |-> s.isnil, arr |-> s.elems, ttl |-> 0]

\* json.Unmarshal into a nil slice: null leaves it nil, an array allocates.
UnmarshalOutcomes(doc) ==
  IF doc.null THEN {NilSlice}
  ELSE {MkSlice(doc.arr, c) : c \in Caps(Len(doc.arr))}

\* GetTasks: redis.Nil (no key) is reported as (nil, nil).
CacheGetTasksOutcomes(c, fault) ==
  IF fault THEN {[tasks |-> NilSlice, err |-> ErrCache, sig |-> "error"]}
  ELSE IF ~c.present THEN {[tasks |-> NilSlice, err |-> ErrNil, sig |-> "empty"]}
  ELSE {[tasks |-> s, err |-> ErrNil, sig |-> "hit"] : s \in UnmarshalOutcomes(c)}

\* SET tasks <document> with the expiration ttl.
CacheSetTasks(c, tasks, ttl, fault) ==
  IF fault THEN [cache |-> c, err |-> ErrCache]
  ELSE [cache |-> [Marshal(tasks) EXCEPT !.ttl = ttl], err |-> ErrNil]

CacheInvalidate(c, fault) ==
  IF fault THEN [cache |-> c, err |-> ErrCache]
  ELSE [cache |-> NoEntry, err |-> ErrNil]

\* ------------------------------------------------------------ the use case

\* List's normalisation of page and limit.
NormPage(page) == IF page < 1 THEN 1 ELSE page
\* Mutant: a limit above the maximum is cut to the maximum.
NormLimitCapsAtMax(limit) ==
  IF limit < 1 THEN DefaultLimit ELSE IF limit > MaxLimit THEN MaxLimit ELSE limit

NormLimit(limit) == IF limit < 1 \/ limit > MaxLimit THEN DefaultLimit ELSE limit

\* The HTTP adapter's own clamp of the query parameters, before it calls List.
HandlerPage(page) == IF page < 1 THEN 1 ELSE page
HandlerLimit(limit) == IF limit < 1 \/ limit > MaxLimit THEN DefaultLimit ELSE limit

\* tasks[limit*(page-1) : limit*page]
Paginate(tasks, page, limit) == SliceExpr(tasks, limit * (page - 1), limit * page)


\* ------------------------------------------------------------------ state

VARIABLES
  store,    \* the tasks table of the relational store
  cache,    \* the value under the redis key "tasks"
  clock,    \* time.Now()
  pc,       \* per request process: the call it is about to make
  op,       \* per request process: the use-case method it runs
  req,      \* per request process: the arguments of the call
  loc,      \* per request process: the local variables of the method
  result    \* per request process: what the method returned

vars == <<store, cache, clock, pc, op, req, loc, result>>

\* Titles at the limit of the title column: 255 characters, 256
\* characters, and 255 characters followed by a space.
Title15 == "aaaaaaaaaaaaaaa"
Title60 == Title15 \o Title15 \o Title15 \o Title15
Title255 == Title60 \o Title60 \o Title60 \o Title60 \o Title15
Title256 == Title255 \o "a"
Title255Padded == Title255 \o " "

\* The input domains a specification draws the requests from.

\* Spec: the tasks' contents and the clock vary.
FullDom ==
  [titles |-> {"", "a", Title256, Title255Padded}, descriptions |-> {"d"},
   statuses |-> {"todo", "done", "archived"},
   stamps |-> {ZeroTime},
   ids |-> {NilUUID} \cup IDs,
   pages |-> {1}, limits |-> {2}, vias |-> {"direct"},
   callVias |-> {"direct"}, bodies |-> {"json"},
   storeFaults |-> BOOLEAN,
   getFaults |-> BOOLEAN, setFaults |-> BOOLEAN, invFaults |-> BOOLEAN]

\* SpecList: the paging requests vary, the stored tasks differ by id.
ListDom ==
  [titles |-> {"", "a"}, descriptions |-> {"d"},
   statuses |-> {"todo", "archived"},
   stamps |-> {ZeroTime},
   ids |-> {NilUUID} \cup IDs,
   pages |-> {-1, 0, 1, 2, 3}, limits |-> {-1, 0, 1, 2, 3, DefaultLimit, MaxLimit, MaxLimit + 1},
   vias |-> {"direct", "http"},
   callVias |-> {"direct"}, bodies |-> {"json"},
   storeFaults |-> BOOLEAN,
   getFaults |-> BOOLEAN, setFaults |-> BOOLEAN, invFaults |-> BOOLEAN]

\* SpecConc: concurrent requests over tasks that differ by id only; a cache
\* read may fail (List reads the store only then), cache writes succeed.
ConcDom ==
  [titles |-> {"a"}, descriptions |-> {"d"},
   statuses |-> {"todo"},
   stamps |-> {ZeroTime},
   ids |-> {NilUUID, 1},
   pages |-> {1}, limits |-> {2}, vias |-> {"direct"},
   callVias |-> {"direct"}, bodies |-> {"json"},
   storeFaults |-> {FALSE},
   getFaults |-> BOOLEAN, setFaults |-> {FALSE}, invFaults |-> {FALSE}]

\* SpecWrites: concurrent Create, Get, Update and Delete over tasks that
\* differ by id only; a store write fails on a duplicate or a missing id,
\* a cache read or invalidation may fail.
WriteDom ==
  [ConcDom EXCEPT !.invFaults = BOOLEAN]

\* A timestamp a client puts in a request body.
BodyStamp == MaxClock + 1

\* SpecHttp: the calls on single tasks made through the HTTP handlers, with
\* bodies that carry an id and timestamps, bodies that do not decode, and
\* ids that do not parse.
HttpDom ==
  [titles |-> {"", "a"}, descriptions |-> {"d"},
   statuses |-> {"todo", "archived"},
   stamps |-> {ZeroTime, BodyStamp},
   ids |-> {NilUUID} \cup IDs,
   pages |-> {1}, limits |-> {2}, vias |-> {"http"},
   callVias |-> {"http"}, bodies |-> {"json", "malformed"},
   storeFaults |-> BOOLEAN,
   getFaults |-> BOOLEAN, setFaults |-> BOOLEAN, invFaults |-> BOOLEAN]

TaskInputs(D) ==
  [id : D.ids, title : D.titles, description : D.descriptions,
   status : D.statuses, created_at : D.stamps, updated_at : D.stamps]

\* The id strings of Get and Delete: a UUID in text form, or malformed text.
IdStrings(D) ==
  {[wellformed |-> TRUE, uuid |-> i] : i \in D.ids}
    \cup {[wellformed |-> FALSE, uuid |-> NilUUID]}

NoIdString == [wellformed |-> FALSE, uuid |-> NilUUID]

\* The arguments of a call: those of the use-case method and, for a call
\* that comes through an HTTP handler, the id of the path and whether the
\* body decodes.
NoReq ==
  [page |-> 0, limit |-> 0, task |-> ZeroTask, idstr |-> NoIdString,
   via |-> "direct", body |-> "json"]

NoLoc ==
  [page |-> 0, limit |-> 0, task |-> ZeroTask, tasks |-> NilSlice,
   sig |-> "none", calls |-> <<>>, storeErr |-> ErrNil, invErr |-> ErrNil,
   afterWrite |-> FALSE]

Init ==
  /\ store = EmptyTable
  /\ cache = NoEntry
  /\ clock = 1
  /\ pc = [p \in Procs |-> "idle"]
  /\ op = [p \in Procs |-> "none"]
  /\ req = [p \in Procs |-> NoReq]
  /\ loc = [p \in Procs |-> NoLoc]
  /\ result = [p \in Procs |-> NoResult]

\* A process takes its next request when the previous one has returned.
Ready(p) == pc[p] = "idle"

\* The locals of a fresh call; afterWrite is carried from call to call.
NewLoc(p) == [NoLoc EXCEPT !.afterWrite = loc[p].afterWrite]

Called(p, name) == Append(loc[p].calls, name)

\* No List has run since this process's last successful write.
AfterWrite(p) ==
  IF op[p] \in {"create", "update", "delete"} /\ result[p].kind = "ok" THEN TRUE
  ELSE IF op[p] = "list" THEN FALSE
  ELSE loc[p].afterWrite

\* uuid.New(): a UUID that no row and no Create in flight carries.
NewUUIDs ==
  IDs \ (DOMAIN store \cup {loc[q].task.id : q \in {r \in Procs : pc[r] = "c_store"}})

\* ------------------------------------------------------------------- List

ListStart(p, D) ==
  /\ Ready(p)
  /\ \E page \in D.pages, limit \in D.limits, via \in D.vias :
       LET hp == IF via = "http" THEN HandlerPage(page) ELSE page
           hl == IF via = "http" THEN HandlerLimit(limit) ELSE limit
       IN  /\ req' = [req EXCEPT ![p] = [NoReq EXCEPT !.page = page, !.limit = limit,
                                                      !.via = via]]
           /\ loc' = [loc EXCEPT ![p] = [NewLoc(p) EXCEPT !.page = NormPage(hp),
                                                          !.limit = NormLimit(hl)]]
  /\ op' = [op EXCEPT ![p] = "list"]
  /\ pc' = [pc EXCEPT ![p] = "l_get"]
  /\ result' = [result EXCEPT ![p] = NoResult]
  /\ UNCHANGED <<store, cache, clock>>

\* Mutant: List reads the store also when the cache gave it a collection.
ListGetTasksAlwaysReadsStore(p, D) ==
  /\ pc[p] = "l_get"
  /\ \E fault \in D.getFaults :
       \E r \in CacheGetTasksOutcomes(cache, fault) :
         /\ loc' = [loc EXCEPT ![p].tasks = r.tasks, ![p].sig = r.sig,
                               ![p].calls = Called(p, "Cache.GetTasks")]
         /\ pc' = [pc EXCEPT ![p] = "l_store"]
         /\ UNCHANGED result
  /\ UNCHANGED <<store, cache, clock, op, req>>

ListGetTasks(p, D) ==
  /\ pc[p] = "l_get"
  /\ \E fault \in D.getFaults :
       \E r \in CacheGetTasksOutcomes(cache, fault) :
         /\ loc' = [loc EXCEPT ![p].tasks = r.tasks, ![p].sig = r.sig,
                               ![p].calls = Called(p, "Cache.GetTasks")]
         /\ IF r.err = ErrNil
              THEN /\ result' = [result EXCEPT ![p] =
                                   Paginate(r.tasks, loc[p].page, loc[p].limit)]
                   /\ pc' = [pc EXCEPT ![p] = "done"]
              ELSE /\ pc' = [pc EXCEPT ![p] = "l_store"]
                   /\ UNCHANGED result
  /\ UNCHANGED <<store, cache, clock, op, req>>

ListStoreList(p, D) ==
  /\ pc[p] = "l_store"
  /\ \E fault \in D.storeFaults :
       \E r \in RepoListOutcomes(store, fault) :
         /\ loc' = [loc EXCEPT ![p].tasks = r.tasks, ![p].storeErr = r.err,
                               ![p].calls = Called(p, "Store.List")]
         /\ IF r.err # ErrNil
              THEN /\ result' = [result EXCEPT ![p] = Failed(r.err)]
                   /\ pc' = [pc EXCEPT ![p] = "done"]
              ELSE /\ pc' = [pc EXCEPT ![p] = "l_set"]
                   /\ UNCHANGED result
  /\ UNCHANGED <<store, cache, clock, op, req>>

\* Mutant: List caches the page it returns instead of the collection.
ListSetTasksCachesPage(p, D) ==
  /\ pc[p] = "l_set"
  /\ \E fault \in D.setFaults :
       LET page == Paginate(loc[p].tasks, loc[p].page, loc[p].limit)
           r == CacheSetTasks(cache, MkSlice(page.items, Len(page.items)), CacheTTL, fault)
       IN  /\ cache' = r.cache
           /\ loc' = [loc EXCEPT ![p].calls = Called(p, "Cache.SetTasks")]
  /\ result' = [result EXCEPT ![p] = Paginate(loc[p].tasks, loc[p].page, loc[p].limit)]
  /\ pc' = [pc EXCEPT ![p] = "done"]
  /\ UNCHANGED <<store, clock, op, req>>

ListSetTasks(p, D) ==
  /\ pc[p] = "l_set"
  /\ \E fault \in D.setFaults :
       LET r == CacheSetTasks(cache, loc[p].tasks, CacheTTL, fault)
       IN  /\ cache' = r.cache
           /\ loc' = [loc EXCEPT ![p].calls = Called(p, "Cache.SetTasks")]
  /\ result' = [result EXCEPT ![p] = Paginate(loc[p].tasks, loc[p].page, loc[p].limit)]
  /\ pc' = [pc EXCEPT ![p] = "done"]
  /\ UNCHANGED <<store, clock, op, req>>

\* ----------------------------------------------------------------- Create

\* createTaskHandler decodes the body into the task it passes to Create.
CreateStart(p, D) ==
  /\ Ready(p)
  /\ op' = [op EXCEPT ![p] = "create"]
  /\ \E task \in TaskInputs(D), via \in D.callVias, body \in D.bodies :
       /\ req' = [req EXCEPT ![p] = [NoReq EXCEPT !.task = task, !.via = via,
                                                  !.body = body]]
       /\ IF via = "http" /\ body = "malformed"
            THEN /\ result' = [result EXCEPT ![p] = NoResult]
                 /\ pc' = [pc EXCEPT ![p] = "done"]
                 /\ loc' = [loc EXCEPT ![p] = NewLoc(p)]
          ELSE IF Validate(task) # ErrNil
            THEN /\ result' = [result EXCEPT ![p] = Failed(Validate(task))]
                 /\ pc' = [pc EXCEPT ![p] = "done"]
                 /\ loc' = [loc EXCEPT ![p] = NewLoc(p)]
            ELSE \E id \in (IF task.id = NilUUID THEN NewUUIDs ELSE {task.id}) :
                   /\ loc' = [loc EXCEPT ![p] =
                                [NewLoc(p) EXCEPT !.task = [task EXCEPT !.id = id,
                                                                    !.created_at = clock,
                                                                    !.updated_at = clock]]]
                   /\ result' = [result EXCEPT ![p] = NoResult]
                   /\ pc' = [pc EXCEPT ![p] = "c_store"]
  /\ UNCHANGED <<store, cache, clock>>

CreateStore(p, D) ==
  /\ pc[p] = "c_store"
  /\ \E fault \in D.storeFaults :
       LET r == RepoCreate(store, loc[p].task, clock, fault)
       IN  /\ store' = r.table
           /\ loc' = [loc EXCEPT ![p].task = r.task, ![p].storeErr = r.err,
                                 ![p].calls = Called(p, "Store.Create")]
           /\ IF r.err # ErrNil
                THEN /\ result' = [result EXCEPT ![p] = Failed(r.err)]
                     /\ pc' = [pc EXCEPT ![p] = "done"]
                ELSE /\ pc' = [pc EXCEPT ![p] = "c_inv"]
                     /\ UNCHANGED result
  /\ UNCHANGED <<cache, clock, op, req>>

\* The invalidation that ends Create, Update and Delete: its error is only
\* logged.
Invalidate(p, D, at, ret) ==
  /\ pc[p] = at
  /\ \E fault \in D.invFaults :
       LET r == CacheInvalidate(cache, fault)
       IN  /\ cache' = r.cache
           /\ loc' = [loc EXCEPT ![p].invErr = r.err,
                                 ![p].calls = Called(p, "Cache.Invalidate")]
  /\ result' = [result EXCEPT ![p] = ret]
  /\ pc' = [pc EXCEPT ![p] = "done"]
  /\ UNCHANGED <<store, clock, op, req>>

\* Mutant: Create returns the invalidation's error to its caller.
CreateInvalidatePropagates(p, D) ==
  /\ pc[p] = "c_inv"
  /\ \E fault \in D.invFaults :
       LET r == CacheInvalidate(cache, fault)
       IN  /\ cache' = r.cache
           /\ loc' = [loc EXCEPT ![p].invErr = r.err,
                                 ![p].calls = Called(p, "Cache.Invalidate")]
           /\ result' = [result EXCEPT ![p] =
                           IF r.err # ErrNil THEN Failed(r.err) ELSE OkTask(loc[p].task)]
  /\ pc' = [pc EXCEPT ![p] = "done"]
  /\ UNCHANGED <<store, clock, op, req>>

CreateInvalidate(p, D) == Invalidate(p, D, "c_inv", OkTask(loc[p].task))

\* ----------------------------------------------------------------- Update

\* updateTaskHandler decodes the body, then sets the task's id to
\* uuid.MustParse of the path's id, which panics on an id that does not parse.
UpdateStart(p, D) ==
  /\ Ready(p)
  /\ op' = [op EXCEPT ![p] = "update"]
  /\ \E body \in TaskInputs(D), via \in D.callVias, dec \in D.bodies,
        idstr \in IdStrings(D) :
       LET task == IF via = "http" THEN [body EXCEPT !.id = idstr.uuid] ELSE body
       IN
       /\ via = "direct" => idstr = NoIdString
       /\ req' = [req EXCEPT ![p] = [NoReq EXCEPT !.task = task, !.via = via,
                                                  !.body = dec, !.idstr = idstr]]
       /\ IF via = "http" /\ dec = "malformed"
            THEN /\ result' = [result EXCEPT ![p] = NoResult]
                 /\ pc' = [pc EXCEPT ![p] = "done"]
                 /\ loc' = [loc EXCEPT ![p] = NewLoc(p)]
          ELSE IF via = "http" /\ ~idstr.wellformed
            THEN /\ result' = [result EXCEPT ![p] = Panicked]
                 /\ pc' = [pc EXCEPT ![p] = "done"]
                 /\ loc' = [loc EXCEPT ![p] = NewLoc(p)]
          ELSE IF Validate(task) # ErrNil
            THEN /\ result' = [result EXCEPT ![p] = Failed(Validate(task))]
                 /\ pc' = [pc EXCEPT ![p] = "done"]
                 /\ loc' = [loc EXCEPT ![p] = NewLoc(p)]
            ELSE /\ loc' = [loc EXCEPT ![p] =
                              [NewLoc(p) EXCEPT !.task = [task EXCEPT !.updated_at = clock]]]
                 /\ result' = [result EXCEPT ![p] = NoResult]
                 /\ pc' = [pc EXCEPT ![p] = "u_store"]
  /\ UNCHANGED <<store, cache, clock>>

\* Mutant: Update goes on to the invalidation whatever the store returned.
UpdateStoreAlwaysInvalidates(p, D) ==
  /\ pc[p] = "u_store"
  /\ \E fault \in D.storeFaults :
       LET r == RepoUpdate(store, loc[p].task, clock, fault)
       IN  /\ store' = r.table
           /\ loc' = [loc EXCEPT ![p].task = r.task, ![p].storeErr = r.err,
                                 ![p].calls = Called(p, "Store.Update")]
  /\ pc' = [pc EXCEPT ![p] = "u_inv"]
  /\ UNCHANGED <<result, cache, clock, op, req>>

UpdateStore(p, D) ==
  /\ pc[p] = "u_store"
  /\ \E fault \in D.storeFaults :
       LET r == RepoUpdate(store, loc[p].task, clock, fault)
       IN  /\ store' = r.table
           /\ loc' = [loc EXCEPT ![p].task = r.task, ![p].storeErr = r.err,
                                 ![p].calls = Called(p, "Store.Update")]
           /\ IF r.err # ErrNil
                THEN /\ result' = [result EXCEPT ![p] = Failed(r.err)]
                     /\ pc' = [pc EXCEPT ![p] = "done"]
                ELSE /\ pc' = [pc EXCEPT ![p] = "u_inv"]
                     /\ UNCHANGED result
  /\ UNCHANGED <<cache, clock, op, req>>

UpdateInvalidate(p, D) == Invalidate(p, D, "u_inv", OkTask(loc[p].task))

\* ----------------------------------------------------------------- Delete

\* Mutant: Delete invalidates the cache also when no task had the id.
DeleteStoreInvalidatesOnNotFound(p, D) ==
  /\ Ready(p)
  /\ op' = [op EXCEPT ![p] = "delete"]
  /\ \E idstr \in IdStrings(D), fault \in D.storeFaults, via \in D.callVias :
       LET r == RepoDelete(store, idstr, fault)
       IN  /\ req' = [req EXCEPT ![p] = [NoReq EXCEPT !.idstr = idstr, !.via = via]]
           /\ store' = r.table
           /\ loc' = [loc EXCEPT ![p] = [NewLoc(p) EXCEPT !.calls = <<"Store.Delete">>,
                                                          !.storeErr = r.err]]
           /\ IF r.err \notin {ErrNil, ErrTaskNotFound}
                THEN /\ result' = [result EXCEPT ![p] = Failed(r.err)]
                     /\ pc' = [pc EXCEPT ![p] = "done"]
                ELSE /\ pc' = [pc EXCEPT ![p] = "d_inv"]
                     /\ result' = [result EXCEPT ![p] = NoResult]
  /\ UNCHANGED <<cache, clock>>

DeleteStore(p, D) ==
  /\ Ready(p)
  /\ op' = [op EXCEPT ![p] = "delete"]
  /\ \E idstr \in IdStrings(D), fault \in D.storeFaults, via \in D.callVias :
       LET r == RepoDelete(store, idstr, fault)
       IN  /\ req' = [req EXCEPT ![p] = [NoReq EXCEPT !.idstr = idstr, !.via = via]]
           /\ store' = r.table
           /\ loc' = [loc EXCEPT ![p] = [NewLoc(p) EXCEPT !.calls = <<"Store.Delete">>,
                                                          !.storeErr = r.err]]
           /\ IF r.err # ErrNil
                THEN /\ result' = [result EXCEPT ![p] = Failed(r.err)]
                     /\ pc' = [pc EXCEPT ![p] = "done"]
                ELSE /\ pc' = [pc EXCEPT ![p] = "d_inv"]
                     /\ result' = [result EXCEPT ![p] = NoResult]
  /\ UNCHANGED <<cache, clock>>

DeleteInvalidate(p, D) == Invalidate(p, D, "d_inv", OkTask(ZeroTask))

\* -------------------------------------------------------------------- Get

\* Mutant: Get serves the task from the cached collection when it is there.
GetReadsCache(p, D) ==
  /\ Ready(p)
  /\ op' = [op EXCEPT ![p] = "get"]
  /\ \E idstr \in IdStrings(D), fault \in D.storeFaults, via \in D.callVias :
       LET r == RepoGet(store, idstr, fault)
           hits == {i \in DOMAIN cache.arr : cache.arr[i].id = idstr.uuid}
       IN  /\ req' = [req EXCEPT ![p] = [NoReq EXCEPT !.idstr = idstr, !.via = via]]
           /\ result' = [result EXCEPT ![p] =
                           IF idstr.wellformed /\ hits # {}
                             THEN OkTask(cache.arr[CHOOSE i \in hits : TRUE])
                           ELSE IF r.err # ErrNil THEN Failed(r.err) ELSE OkTask(r.task)]
           /\ loc' = [loc EXCEPT ![p] = [NewLoc(p) EXCEPT !.calls = <<"Store.Get">>,
                                                          !.storeErr = r.err]]
  /\ pc' = [pc EXCEPT ![p] = "done"]
  /\ UNCHANGED <<store, cache, clock>>

Get(p, D) ==
  /\ Ready(p)
  /\ op' = [op EXCEPT ![p] = "get"]
  /\ \E idstr \in IdStrings(D), fault \in D.storeFaults, via \in D.callVias :
       LET r == RepoGet(store, idstr, fault)
       IN  /\ req' = [req EXCEPT ![p] = [NoReq EXCEPT !.idstr = idstr, !.via = via]]
           /\ result' = [result EXCEPT ![p] =
                           IF r.err # ErrNil THEN Failed(r.err) ELSE OkTask(r.task)]
           /\ loc' = [loc EXCEPT ![p] = [NewLoc(p) EXCEPT !.calls = <<"Store.Get">>,
                                                          !.storeErr = r.err]]
  /\ pc' = [pc EXCEPT ![p] = "done"]
  /\ UNCHANGED <<store, cache, clock>>

\* The call has returned to its caller; the process is free again.
Return(p) ==
  /\ pc[p] = "done"
  /\ pc' = [pc EXCEPT ![p] = "idle"]
  /\ op' = [op EXCEPT ![p] = "none"]
  /\ req' = [req EXCEPT ![p] = NoReq]
  /\ loc' = [loc EXCEPT ![p] = [NoLoc EXCEPT !.afterWrite = AfterWrite(p)]]
  /\ result' = [result EXCEPT ![p] = NoResult]
  /\ UNCHANGED <<store, cache, clock>>

\* ----------------------------------------------------------- HTTP handlers

\* errors.Is for the error values in play, none of which wraps another.
ErrorsIs(err, target) == err = target

\* The status code the handler of a finished request responds with. A
\* panic of the handler is answered by middleware.Recoverer.
Respond(p) ==
  IF req[p].body = "malformed" THEN StatusBadRequest
  ELSE IF result[p].kind = "panic" THEN StatusInternalServerError
  ELSE IF result[p].kind = "err"
    THEN IF op[p] \in {"get", "update", "delete"}
              /\ ErrorsIs(result[p].err, UsecaseErrTaskNotFound)
           THEN StatusNotFound
           ELSE StatusInternalServerError
  ELSE IF op[p] = "create" THEN StatusCreated
  ELSE IF op[p] = "delete" THEN StatusNoContent
  ELSE StatusOK

\* ------------------------------------------------------------ environment

\* Time passes.
Tick ==
  /\ clock < MaxClock
  /\ clock' = clock + 1
  /\ UNCHANGED <<store, cache, pc, op, req, loc, result>>

\* The cached entry reaches its time-to-live and redis drops it.
Expire ==
  /\ cache.present
  /\ cache' = NoEntry
  /\ UNCHANGED <<store, clock, pc, op, req, loc, result>>

\* --------------------------------------------------------- specifications

\* The steps of a List call.
ListSteps(p, D) ==
  \/ ListStart(p, D) \/ ListGetTasks(p, D) \/ ListStoreList(p, D) \/ ListSetTasks(p, D)

\* The steps of the calls on single tasks, and the return of any call.
TaskSteps(p, D) ==
  \/ CreateStart(p, D) \/ CreateStore(p, D) \/ CreateInvalidate(p, D)
  \/ UpdateStart(p, D) \/ UpdateStore(p, D) \/ UpdateInvalidate(p, D)
  \/ DeleteStore(p, D) \/ DeleteInvalidate(p, D)
  \/ Get(p, D)
  \/ Return(p)

\* Create, Get, Update and Delete one at a time over tasks of every content,
\* while time passes; store and cache calls may fail.
Next == Tick \/ TaskSteps(1, FullDom)

Spec == Init /\ [][Next]_vars

\* Every call one at a time, over every paging request, with the cache in
\* use; store and cache calls may fail; the clock stands still.
NextList == Expire \/ ListSteps(1, ListDom) \/ TaskSteps(1, ListDom)

SpecList == Init /\ [][NextList]_vars

\* Concurrent calls; cache reads may fail; the clock stands still.
NextConc == Expire \/ \E p \in Procs : ListSteps(p, ConcDom) \/ TaskSteps(p, ConcDom)

SpecConc == Init /\ [][NextConc]_vars

\* Concurrent calls on single tasks, no List: the cache stays empty.
NextWrites == \E p \in Procs : TaskSteps(p, WriteDom)

SpecWrites == Init /\ [][NextWrites]_vars

\* The calls on single tasks, one at a time, made through the HTTP handlers.
NextHttp == TaskSteps(1, HttpDom)

SpecHttp == Init /\ [][NextHttp]_vars

\* ----------------------------------------------------------------- claims

Min(a, b) == IF a < b THEN a ELSE b

\* The items of elems at the zero-based indexes [(page-1)*limit, min(page*limit, N)).
ClampedWindow(elems, page, limit) ==
  SubSeq(elems, limit * (page - 1) + 1, Min(limit * page, Len(elems)))

ListDone(p) == pc[p] = "done" /\ op[p] = "list"

\* C1: a List that got a collection, from a cache hit or from the store,
\* returns without panicking exactly the clamped window of that collection
\* for its normalised page and limit.
C1_ListReturnsClampedWindow ==
  \A p \in Procs :
    (ListDone(p) /\ loc[p].sig # "empty" /\ result[p].kind # "err")
      => /\ result[p].kind = "ok"
         /\ result[p].items =
              ClampedWindow(loc[p].tasks.elems, loc[p].page, loc[p].limit)

\* C2: a List whose Cache.GetTasks reported that no entry exists goes on to
\* Store.List, then Cache.SetTasks, and returns the page of what it fetched.
C2_EmptyCacheFallsThrough ==
  \A p \in Procs :
    (ListDone(p) /\ loc[p].sig = "empty")
      => /\ Len(loc[p].calls) >= 2
         /\ loc[p].calls[2] = "Store.List"
         /\ result[p].kind # "err"
              => /\ loc[p].calls = <<"Cache.GetTasks", "Store.List", "Cache.SetTasks">>
                 /\ result[p].kind = "ok"
                 /\ result[p].items =
                      ClampedWindow(loc[p].tasks.elems, loc[p].page, loc[p].limit)

\* The pages of the store's current collection, in any order the store lists it.
PagesOfStore(page, limit) ==
  {ClampedWindow(rows, page, limit) : rows \in Orderings(store)}

\* C3: the first List after a successful Create, Update or Delete returns a
\* page of the store's current collection (unless the store read itself fails).
C3_FirstListAfterWriteReflectsStore ==
  \A p \in Procs :
    (ListDone(p) /\ loc[p].afterWrite /\ result[p].kind # "err")
      => /\ result[p].kind = "ok"
         /\ result[p].items \in PagesOfStore(loc[p].page, loc[p].limit)

\* The cached document is the store's current collection.
CacheIsStore ==
  \/ cache.null /\ DOMAIN store = {}
  \/ ~cache.null /\ cache.arr \in Orderings(store)

Quiescent == \A p \in Procs : pc[p] \in {"idle", "done"}

\* C4: once every request in flight has completed, the cache is empty or
\* holds exactly the store's current collection.
C4_QuiescentCacheIsEmptyOrCurrent ==
  Quiescent => (~cache.present \/ CacheIsStore)

\* C5: a List whose Cache.GetTasks failed and whose Store.List succeeded
\* returns, without error, the clamped window of the collection the store
\* returned, whether or not Cache.SetTasks failed.
C5_CacheFailureNeverFailsList ==
  \A p \in Procs :
    (ListDone(p) /\ loc[p].sig = "error" /\ "Store.List" \in {loc[p].calls[i] : i \in DOMAIN loc[p].calls}
       /\ ~(result[p].kind = "err" /\ result[p].err = ErrStore))
      => /\ result[p].kind = "ok"
         /\ result[p].items =
              ClampedWindow(loc[p].tasks.elems, loc[p].page, loc[p].limit)

Writes == {"create", "update", "delete"}

\* C6: whenever the store operation of Create, Update or Delete succeeded,
\* the call returns the success result (the stored task; for Delete, no
\* error), whatever Cache.Invalidate returned.
C6_InvalidateFailureNeverFailsWrite ==
  \A p \in Procs :
    (pc[p] = "done" /\ op[p] \in Writes /\ loc[p].calls # <<>> /\ loc[p].storeErr = ErrNil)
      => /\ result[p].kind = "ok"
         /\ result[p].err = ErrNil
         /\ op[p] = "delete" => result[p].task = ZeroTask
         /\ op[p] # "delete" => /\ result[p].task = loc[p].task
                                /\ result[p].task.id \in DOMAIN store
                                /\ store[result[p].task.id] = result[p].task

\* An Update whose store operation succeeded and whose invalidation failed,
\* leaving the old entry in the cache.
C6_Witness ==
  \E p \in Procs :
    /\ pc[p] = "done" /\ op[p] = "update"
    /\ loc[p].storeErr = ErrNil /\ loc[p].invErr = ErrCache
    /\ result[p].kind = "ok"
    /\ cache.present

\* The tasks the claim about Validate is checked on.
ValidateInputs ==
  [id : {NilUUID, 1}, title : {"", "a", "todo"}, description : {"", "d"},
   status : {"", "todo", "in_progress", "done", "archived", "TODO", "in progress"},
   created_at : {ZeroTime}, updated_at : {ZeroTime}]

Invalid(t) == t.title = "" \/ t.status \notin {"todo", "in_progress", "done"}

C7_ValidateDecides == \A t \in ValidateInputs : Invalid(t) <=> Validate(t) # ErrNil

C7_RejectedBeforeAnyCall ==
  \A p \in Procs :
    (pc[p] = "done" /\ op[p] \in {"create", "update"} /\ Invalid(req[p].task))
      => /\ result[p].kind = "err"
         /\ result[p].err \in ValidationErrors
         /\ loc[p].calls = <<>>

C7_RejectionChangesNothing ==
  \A p \in Procs :
    (pc[p] = "idle" /\ op'[p] \in {"create", "update"} /\ Invalid(req'[p].task))
      => /\ pc'[p] = "done"
         /\ store' = store
         /\ cache' = cache

\* C7: Validate fails exactly for the tasks with an empty title or a status
\* outside todo, in_progress, done; Create and Update of such a task return
\* the validation error having made no store call and no cache call, and
\* leave store and cache as they were.
C7_ValidationRejectsBeforeStore ==
  /\ [](C7_ValidateDecides /\ C7_RejectedBeforeAnyCall)
  /\ [][C7_RejectionChangesNothing]_vars

\* An Update rejected for its status while the store holds a task and the
\* cache an entry.
C7_Witness ==
  \E p \in Procs :
    /\ pc[p] = "done" /\ op[p] = "update"
    /\ req[p].task.title # "" /\ req[p].task.status = "archived"
    /\ result[p].err = ErrStatus
    /\ DOMAIN store # {} /\ cache.present

\* C8: List replaces a page below 1 by 1 and a limit outside [1,100] by 20,
\* uses in-range values unchanged, and never returns an error for its paging
\* arguments: the only error List returns is the store's.
C8_PagingIsClamped ==
  \A p \in Procs :
    (op[p] = "list" /\ pc[p] # "idle")
      => /\ loc[p].page = (IF req[p].page < 1 THEN 1 ELSE req[p].page)
         /\ loc[p].limit = (IF req[p].limit >= 1 /\ req[p].limit <= 100
                              THEN req[p].limit ELSE 20)
         /\ result[p].kind = "err"
              => result[p].err = ErrStore /\ loc[p].storeErr = ErrStore

\* A direct List call with a page below 1 and a limit above 100 has returned.
C8_Witness ==
  \E p \in Procs :
    /\ ListDone(p) /\ req[p].via = "direct"
    /\ req[p].page < 1 /\ req[p].limit > 100
    /\ loc[p].page = 1 /\ loc[p].limit = 20
    /\ result[p].kind # "err"

IdString(i) == [wellformed |-> TRUE, uuid |-> i]

C9_DeleteStep ==
  \A p \in Procs :
    (pc[p] = "idle" /\ op'[p] = "delete" /\ req'[p].idstr.wellformed
       /\ loc'[p].storeErr # ErrStore)
      => LET id == req'[p].idstr.uuid
         IN  IF id \notin DOMAIN store
               THEN /\ result'[p] = Failed(ErrTaskNotFound)
                    /\ pc'[p] = "done"
                    /\ store' = store
               ELSE /\ pc'[p] = "d_inv"
                    /\ DOMAIN store' = DOMAIN store \ {id}
                    /\ \A j \in DOMAIN store' : store'[j] = store[j]
                    /\ RepoGet(store', IdString(id), FALSE).err = ErrTaskNotFound
                    /\ \A j \in DOMAIN store \ {id} :
                         RepoGet(store', IdString(j), FALSE) =
                           [task |-> store[j], err |-> ErrNil]

C9_GetAgreesWithStore ==
  \A p \in Procs :
    (pc[p] = "done" /\ op[p] = "get" /\ req[p].idstr.wellformed
       /\ result[p].err # ErrStore)
      => IF req[p].idstr.uuid \in DOMAIN store
           THEN result[p] = OkTask(store[req[p].idstr.uuid])
           ELSE result[p] = Failed(ErrTaskNotFound)

\* C9: (for a well-formed id and a store call that does not itself fail)
\* Delete of an id that is not in the store returns NotFound and leaves the
\* store unchanged; Delete of an id in the store removes exactly that row,
\* so that Get of it returns NotFound and Get of every other id returns its
\* row unchanged.
C9_DeleteRemovesExactlyThatTask ==
  /\ []C9_GetAgreesWithStore
  /\ [][C9_DeleteStep]_vars

\* A Delete has removed one of two tasks.
C9_Witness ==
  \E p \in Procs :
    /\ pc[p] = "d_inv" /\ op[p] = "delete"
    /\ req[p].idstr.uuid \notin DOMAIN store
    /\ DOMAIN store # {}

C10_IdAssigned ==
  \A p \in Procs :
    (pc[p] = "idle" /\ op'[p] = "create" /\ pc'[p] = "c_store")
      => IF req'[p].task.id = NilUUID
           THEN loc'[p].task.id # NilUUID /\ loc'[p].task.id \notin DOMAIN store
           ELSE loc'[p].task.id = req'[p].task.id

C10_Created ==
  \A p \in Procs :
    (pc[p] = "done" /\ op[p] = "create" /\ result[p].kind = "ok")
      => /\ result[p].task.created_at = result[p].task.updated_at
         /\ result[p].task.id # NilUUID
         /\ req[p].task.id # NilUUID => result[p].task.id = req[p].task.id

\* C10: Create gives a task that has no id an id that no task in the store
\* has, and keeps a caller-supplied id; the task a successful Create returns
\* has created_at equal to updated_at.
C10_CreateAssignsIdAndTimestamps ==
  /\ []C10_Created
  /\ [][C10_IdAssigned]_vars

\* A Create without an id has succeeded while the store held another task,
\* and the clock moved during the call.
C10_Witness ==
  \E p \in Procs :
    /\ pc[p] = "done" /\ op[p] = "create" /\ result[p].kind = "ok"
    /\ req[p].task.id = NilUUID
    /\ Cardinality(DOMAIN store) = 2
    /\ req[p].task.created_at # result[p].task.created_at
    /\ loc[p].invErr = ErrCache

\* What a successful Update leaves alone, and what it writes.
C11_UpdateFrame(p) ==
  LET id == loc[p].task.id
  IN  /\ id \in DOMAIN store
      /\ DOMAIN store' = DOMAIN store
      /\ \A j \in DOMAIN store \ {id} : store'[j] = store[j]
      /\ store'[id].id = store[id].id
      /\ store'[id].created_at = store[id].created_at
      /\ store'[id].title = TitleColumn(req[p].task.title).title
      /\ store'[id].description = req[p].task.description
      /\ store'[id].status = req[p].task.status

C11_UpdateOfAbsentId(p) ==
  (loc[p].task.id \notin DOMAIN store /\ loc'[p].storeErr # ErrStore)
    => /\ result'[p] = Failed(ErrTaskNotFound)
       /\ pc'[p] = "done"
       /\ store' = store /\ cache' = cache

\* C11 as stated: a successful Update leaves id, created_at and every other
\* task as they were and makes updated_at later than it was; an Update of an
\* id that is not in the store returns NotFound and changes nothing.
C11_UpdateAdvancesUpdatedAt ==
  [][\A p \in Procs :
       (pc[p] = "u_store" /\ pc'[p] # "u_store")
         => /\ C11_UpdateOfAbsentId(p)
            /\ pc'[p] = "u_inv"
                 => /\ C11_UpdateFrame(p)
                    /\ store'[loc[p].task.id].updated_at
                         > store[loc[p].task.id].updated_at]_vars

\* C11 amended: as above, but updated_at becomes the clock's reading at the
\* store's Update, which is later than before only if the clock has moved on
\* since the task was last written.
C11_UpdateSetsUpdatedAtToNow ==
  [][\A p \in Procs :
       (pc[p] = "u_store" /\ pc'[p] # "u_store")
         => /\ C11_UpdateOfAbsentId(p)
            /\ pc'[p] = "u_inv"
                 => /\ C11_UpdateFrame(p)
                    /\ store'[loc[p].task.id].updated_at = clock
                    /\ clock > store[loc[p].task.id].updated_at
                         => store'[loc[p].task.id].updated_at
                              > store[loc[p].task.id].updated_at]_vars

\* An Update has rewritten one of two tasks after the clock moved on.
C11_Witness ==
  \E p \in Procs :
    /\ pc[p] = "u_inv" /\ op[p] = "update"
    /\ Cardinality(DOMAIN store) = 2
    /\ store[loc[p].task.id].updated_at > store[loc[p].task.id].created_at
    /\ store[loc[p].task.id].status = "done"

\* Create returns the row it stored: a Get of the returned id at that moment
\* gives the returned task, field by field.
C12_CreateReturnsStoredRow ==
  \A p \in Procs :
    (pc[p] = "c_inv" /\ pc'[p] = "done")
      => LET r == result'[p].task
         IN  /\ result'[p].kind = "ok"
             /\ RepoGet(store', IdString(r.id), FALSE) = [task |-> r, err |-> ErrNil]

\* A stored row stays as it is until an Update or a Delete of its id succeeds.
C12_RowStableUntilWritten ==
  \A id \in DOMAIN store :
    \/ id \in DOMAIN store' /\ store'[id] = store[id]
    \/ \E p \in Procs :
         \/ pc[p] = "u_store" /\ pc'[p] = "u_inv" /\ loc[p].task.id = id
         \/ pc[p] = "idle" /\ pc'[p] = "d_inv" /\ req'[p].idstr = IdString(id)

\* Get of a well-formed id returns the store's row of that id as it is when
\* Get runs (unless the store call itself fails).
C12_GetReturnsRow ==
  \A p \in Procs :
    (pc[p] = "idle" /\ op'[p] = "get" /\ req'[p].idstr.wellformed
       /\ req'[p].idstr.uuid \in DOMAIN store /\ loc'[p].storeErr # ErrStore)
      => result'[p] = OkTask(store[req'[p].idstr.uuid])

\* C12: the task a successful Create returns is the stored row; the row is
\* not changed by anything but an Update or Delete of its id; and Get returns
\* the row: so Get(r.id) after Create returns a task equal to r in all fields.
C12_CreateGetRoundTrip ==
  [][C12_CreateReturnsStoredRow /\ C12_RowStableUntilWritten /\ C12_GetReturnsRow]_vars

\* A Get has returned a task that a Create stored after the clock moved
\* during the Create, while another task was updated in between.
C12_Witness ==
  \E p \in Procs :
    /\ pc[p] = "done" /\ op[p] = "get" /\ result[p].kind = "ok"
    /\ result[p].task.created_at = MaxClock
    /\ result[p].task.updated_at = result[p].task.created_at
    /\ \E j \in DOMAIN store : store[j].updated_at > store[j].created_at

\* C13: Get makes one call, Store.Get, and returns what it returned: the
\* store's current row, or InvalidID, NotFound or the store's error; it
\* leaves store and cache as they were, whatever the cache holds.
C13_GetBypassesCache ==
  [][\A p \in Procs :
       (pc[p] = "idle" /\ op'[p] = "get")
         => LET idstr == req'[p].idstr
            IN  /\ store' = store
                /\ cache' = cache
                /\ loc'[p].calls = <<"Store.Get">>
                /\ result'[p] =
                     (IF ~idstr.wellformed THEN Failed(ErrInvalidUUID)
                      ELSE IF loc'[p].storeErr = ErrStore THEN Failed(ErrStore)
                      ELSE IF idstr.uuid \in DOMAIN store THEN OkTask(store[idstr.uuid])
                      ELSE Failed(ErrTaskNotFound))]_vars

\* Get has returned NotFound for a task that a stale cached collection
\* still holds.
C13_Witness ==
  \E p \in Procs :
    /\ pc[p] = "done" /\ op[p] = "get"
    /\ result[p] = Failed(ErrTaskNotFound)
    /\ cache.present
    /\ \E i \in DOMAIN cache.arr : cache.arr[i].id = req[p].idstr.uuid

\* The store write of each writing method.
StoreWriteOf(o) ==
  IF o = "create" THEN "Store.Create"
  ELSE IF o = "update" THEN "Store.Update" ELSE "Store.Delete"

\* C14: the calls a Create, Update or Delete has made so far are none, or
\* its store write, or its store write followed by one Cache.Invalidate;
\* the invalidation is made, or about to be made, only when the store write
\* has returned without error, and a call whose store write failed has
\* returned without invalidating.
C14_StoreWriteBeforeInvalidate ==
  \A p \in Procs :
    op[p] \in Writes
      => /\ loc[p].calls \in {<<>>, <<StoreWriteOf(op[p])>>,
                               <<StoreWriteOf(op[p]), "Cache.Invalidate">>}
         /\ (pc[p] \in {"c_inv", "u_inv", "d_inv"} \/ Len(loc[p].calls) = 2)
              => /\ loc[p].calls[1] = StoreWriteOf(op[p])
                 /\ loc[p].storeErr = ErrNil
         /\ (pc[p] = "done" /\ result[p].kind = "ok")
              => loc[p].calls = <<StoreWriteOf(op[p]), "Cache.Invalidate">>
         /\ (pc[p] = "done" /\ result[p].kind # "ok")
              => Len(loc[p].calls) <= 1

\* One Update has failed at the store and returned, while another call has
\* written the store and is about to invalidate.
C14_Witness ==
  \E p, q \in Procs :
    /\ pc[p] = "done" /\ op[p] = "update"
    /\ loc[p].calls = <<"Store.Update">> /\ loc[p].storeErr = ErrTaskNotFound
    /\ pc[q] \in {"c_inv", "d_inv"}

\* C15: every task in the store has a title of 1 to 255 characters and a
\* status among todo, in_progress, done.
C15_StoredTasksAreValid ==
  \A id \in DOMAIN store :
    /\ store[id].title # ""
    /\ Len(store[id].title) >= 1
    /\ Len(store[id].title) <= 255
    /\ store[id].status \in {"todo", "in_progress", "done"}

\* A Create of a 256-character title has been refused by the store, which
\* holds a task whose title has the full 255 characters.
C15_Witness ==
  \E p \in Procs :
    /\ pc[p] = "done" /\ op[p] = "create"
    /\ Len(req[p].task.title) = 256
    /\ loc[p].calls = <<"Store.Create">> /\ result[p] = Failed(ErrStore)
    /\ \E id \in DOMAIN store : Len(store[id].title) = 255

C16_CreatedNotAfterUpdated ==
  \A id \in DOMAIN store : store[id].created_at <= store[id].updated_at

C16_CreatedAtFixed ==
  \A id \in DOMAIN store \cap DOMAIN store' :
    store'[id].created_at = store[id].created_at

HttpDone(p) == pc[p] = "done" /\ req[p].via = "http"

\* C17: a GET, PUT or DELETE on /tasks/{id} whose store call reported that
\* no task has the (well-formed) id is answered 404.
C17_NotFoundResponds404 ==
  \A p \in Procs :
    (HttpDone(p) /\ op[p] \in {"get", "update", "delete"}
       /\ req[p].idstr.wellformed /\ loc[p].storeErr = ErrTaskNotFound)
      => Respond(p) = StatusNotFound

\* C18: a POST or PUT whose body decodes to a task with an empty title or a
\* status outside todo, in_progress, done is answered 422, and no store call
\* is made for it.
C18_InvalidTaskResponds422 ==
  \A p \in Procs :
    (HttpDone(p) /\ op[p] \in {"create", "update"} /\ req[p].body = "json"
       /\ (op[p] = "update" => req[p].idstr.wellformed)
       /\ Invalid(req[p].task))
      => /\ Respond(p) = StatusUnprocessableEntity
         /\ loc[p].calls = <<>>

\* C19: a GET, PUT or DELETE on /tasks/{id} whose id does not parse is
\* answered 400, without a panic of the handler and without a cache
\* invalidation.
C19_MalformedIdResponds400 ==
  \A p \in Procs :
    (HttpDone(p) /\ op[p] \in {"get", "update", "delete"} /\ req[p].body = "json"
       /\ ~req[p].idstr.wellformed)
      => /\ Respond(p) = StatusBadRequest
         /\ result[p].kind # "panic"
         /\ \A i \in DOMAIN loc[p].calls : loc[p].calls[i] # "Cache.Invalidate"

\* C20: the task a POST /tasks created has an id that the service drew, not
\* the id of the body, and timestamps that are not those of the body.
C20_PostIgnoresBodyIdAndTimestamps ==
  \A p \in Procs :
    (HttpDone(p) /\ op[p] = "create" /\ result[p].kind = "ok")
      => /\ req[p].task.id # NilUUID => result[p].task.id # req[p].task.id
         /\ req[p].task.created_at # ZeroTime
              => result[p].task.created_at # req[p].task.created_at
         /\ req[p].task.updated_at # ZeroTime
              => result[p].task.updated_at # req[p].task.updated_at

\* What Store.List returned to a List is the whole collection of the store.
C21_ListFetchesWholeCollection ==
  \A p \in Procs :
    (pc[p] = "l_store" /\ pc'[p] = "l_set")
      => /\ loc'[p].tasks.elems \in Orderings(store)
         /\ loc'[p].tasks.isnil <=> DOMAIN store = {}

\* The cache changes only by losing its entry or by a List that missed
\* storing what its Store.List returned, with the 5-minute time-to-live.
C21_OnlyListWritesCollection ==
  cache' # cache
    => \/ cache' = NoEntry
       \/ \E p \in Procs :
            /\ pc[p] = "l_set" /\ pc'[p] = "done" /\ op[p] = "list"
            /\ loc[p].calls = <<"Cache.GetTasks", "Store.List">>
            /\ cache' = [present |-> TRUE, null |-> loc[p].tasks.isnil,
                          arr |-> loc[p].tasks.elems, ttl |-> 5]

\* C21: the cache holds no entry or the entire collection that a Store.List
\* returned: only List, after a miss, writes the cache, and it writes the
\* whole collection it fetched, never the page, with a time-to-live of 5
\* minutes.
C21_CacheHoldsWholeCollection ==
  /\ [](cache.present => cache.ttl = 5)
  /\ [][C21_ListFetchesWholeCollection /\ C21_OnlyListWritesCollection]_vars

\* A List with limit 1 has cached the two tasks the store holds.
C21_Witness ==
  \E p \in Procs :
    /\ ListDone(p) /\ loc[p].limit = 1
    /\ loc[p].calls = <<"Cache.GetTasks", "Store.List", "Cache.SetTasks">>
    /\ cache.present /\ Len(cache.arr) = 2
    /\ cache.arr = loc[p].tasks.elems
    /\ Cardinality(DOMAIN store) = 2

\* Every row is stored under its own id.
C22_RowsKeyedByTheirId ==
  \A id \in DOMAIN store : store[id].id = id /\ id # NilUUID

\* The store call of a Create whose id a row already has fails, changes
\* neither store nor cache, and ends the call; the store call of a Create
\* that succeeds adds a row under an id no row had.
C22_CreateOfExistingIdFails ==
  \A p \in Procs :
    (pc[p] = "c_store" /\ pc'[p] # "c_store")
      => IF loc[p].task.id \in DOMAIN store
           THEN /\ result'[p] = Failed(ErrStore)
                /\ pc'[p] = "done"
                /\ loc'[p].calls = <<"Store.Create">>
                /\ store' = store
                /\ cache' = cache
           ELSE pc'[p] = "c_inv"
                  => /\ DOMAIN store' = DOMAIN store \cup {loc[p].task.id}
                     /\ \A j \in DOMAIN store : store'[j] = store[j]

\* C22: ids are unique in the store: a Create whose id is already in the
\* store, whether it was there before the call or was put there by a
\* concurrent Create, returns the store's error, leaves the existing task
\* as it is and does not invalidate the cache.
C22_IdsUniqueInStore ==
  /\ []C22_RowsKeyedByTheirId
  /\ [][C22_CreateOfExistingIdFails]_vars

\* Of two concurrent Creates with the same id, one has stored its task and
\* is about to invalidate, the other has failed at the store.
C22_Witness ==
  \E p, q \in Procs :
    /\ p # q
    /\ pc[p] = "c_inv" /\ op[p] = "create" /\ req[p].task.id # NilUUID
    /\ pc[q] = "done" /\ op[q] = "create" /\ req[q].task.id = req[p].task.id
    /\ result[q] = Failed(ErrStore) /\ loc[q].calls = <<"Store.Create">>

\* The store call of each method that has one besides Get.
StoreCallOf(o) == IF o = "list" THEN "Store.List" ELSE StoreWriteOf(o)

\* A call whose store operation failed has returned the store's error, and
\* the store operation was its last call.
C23_FailedStoreCallEndsTheCall ==
  \A p \in Procs :
    (op[p] \in Writes \cup {"list"} /\ loc[p].storeErr # ErrNil)
      => /\ pc[p] = "done"
         /\ loc[p].storeErr \in {ErrStore, ErrTaskNotFound, ErrInvalidUUID}
         /\ result[p] = Failed(loc[p].storeErr)
         /\ loc[p].calls # <<>>
         /\ loc[p].calls[Len(loc[p].calls)] = StoreCallOf(op[p])
         /\ \A i \in DOMAIN loc[p].calls :
              loc[p].calls[i] \notin {"Cache.Invalidate", "Cache.SetTasks"}

\* The step of a failing store operation leaves the cache as it was.
C23_FailedStoreCallLeavesCache ==
  \A p \in Procs :
    (op'[p] \in Writes \cup {"list"} /\ loc[p].storeErr = ErrNil
       /\ loc'[p].storeErr # ErrNil)
      => cache' = cache /\ store' = store

\* C23: when the store operation of Create, Update, Delete or List fails,
\* the call returns that error as it is and makes no further cache call: no
\* Cache.Invalidate, no Cache.SetTasks, the cache as before the store call.
C23_StoreFailureIsReturnedAndCacheUntouched ==
  /\ []C23_FailedStoreCallEndsTheCall
  /\ [][C23_FailedStoreCallLeavesCache]_vars

\* A List whose cache read and store read both failed has returned the
\* store's error, the cached entry still in place.
C23_Witness ==
  \E p \in Procs :
    /\ ListDone(p) /\ result[p] = Failed(ErrStore)
    /\ loc[p].calls = <<"Cache.GetTasks", "Store.List">>
    /\ cache.present /\ cache.arr # <<>>

\* C24: a List whose Cache.GetTasks returned the stored collection ends
\* with that one call: it makes no store call and no other cache call,
\* leaves store and cache as they were, and what it returns is the slice
\* tasks[limit*(page-1) : limit*page] of the cached collection.
C24_HitTouchesNeitherStoreNorCache ==
  [][\A p \in Procs :
       (pc[p] = "l_get" /\ pc'[p] # "l_get" /\ loc'[p].sig = "hit")
         => LET offset == loc[p].limit * (loc[p].page - 1)
            IN  /\ pc'[p] = "done"
                /\ loc'[p].calls = <<"Cache.GetTasks">>
                /\ store' = store
                /\ cache' = cache
                /\ loc'[p].tasks.elems = cache.arr
                /\ result'[p].kind \in {"ok", "panic"}
                /\ result'[p].kind = "ok"
                     => /\ Len(result'[p].items) = loc[p].limit
                        /\ \A i \in 1..loc[p].limit :
                             offset + i <= Len(cache.arr)
                               => result'[p].items[i] = cache.arr[offset + i]]_vars

\* A List has returned a task from the cached collection although the
\* store no longer holds any.
C24_Witness ==
  \E p \in Procs :
    /\ ListDone(p) /\ loc[p].sig = "hit" /\ result[p].kind = "ok"
    /\ loc[p].calls = <<"Cache.GetTasks">>
    /\ cache.present /\ cache.arr # <<>>
    /\ result[p].items # <<>> /\ result[p].items[1] = cache.arr[1]
    /\ DOMAIN store = {}

\* C25: with no write in progress and store and cache answering, a List
\* that finds the cached entry gone (expired) reads the store and returns a
\* page of the store's current collection.
C25_ListAfterExpiryReturnsCurrentPage ==
  \A p \in Procs :
    (ListDone(p) /\ loc[p].sig = "empty" /\ loc[p].storeErr = ErrNil)
      => /\ \E i \in DOMAIN loc[p].calls : loc[p].calls[i] = "Store.List"
         /\ result[p].kind = "ok"
         /\ result[p].items \in PagesOfStore(loc[p].page, loc[p].limit)

====
